---- MODULE Spec2Model ----
(***************************************************************************)
(* Atomic fetch-max (wg21 P0493): the compare-and-swap strategies of       *)
(* fetch_max.hpp (strong, weak, smart, hardware) and the AArch64 entry     *)
(* point atomic_fetch_max_explicit of atomic_maxmin_arm.hpp, run by        *)
(* concurrent threads against one std::atomic<T> location.                 *)
(*                                                                         *)
(* Every atomic operation of the source (load, compare_exchange_weak,      *)
(* fetch_add, one ld[su]max instruction) is one action.  The computation   *)
(* between two atomic operations touches only the caller's locals, so it   *)
(* is folded into the action of the atomic operation that precedes it.     *)
(***************************************************************************)
EXTENDS Integers, Sequences, FiniteSets

\* ------------------------------------------------------------- bounds
NumThreads == 2     \* concurrent callers of the one location
MaxVal == 1         \* magnitude of the values offered and stored
MaxCalls == 2       \* calls started in one run

Threads == 1..NumThreads

\* ---------------------------------------------------- memory orderings
MemoryOrder == {"relaxed", "consume", "acquire", "release", "acq_rel", "seq_cst"}

\* std::atomic<T>::load and the failure ordering of compare_exchange_weak
\* have the precondition that the ordering is neither release nor acq_rel.
LoadPrecondition(m) == m \notin {"release", "acq_rel"}

\* Mutant of load_order: the ordering is passed on as it is.
load_order_identity(m) == m

load_order(m) ==
    IF m = "release" THEN "relaxed"
    ELSE IF m = "acq_rel" THEN "acquire"
    ELSE m

\* ------------------------------------------------------ operand types
\* T of std::atomic<T>: is_integral<T>, sizeof(T), is_signed<T>.
TSChar  == [name |-> "signed char",    integral |-> TRUE,  size |-> 1, signed |-> TRUE]
TUChar  == [name |-> "unsigned char",  integral |-> TRUE,  size |-> 1, signed |-> FALSE]
TShort  == [name |-> "short",          integral |-> TRUE,  size |-> 2, signed |-> TRUE]
TUShort == [name |-> "unsigned short", integral |-> TRUE,  size |-> 2, signed |-> FALSE]
TInt    == [name |-> "int",            integral |-> TRUE,  size |-> 4, signed |-> TRUE]
TUInt   == [name |-> "unsigned int",   integral |-> TRUE,  size |-> 4, signed |-> FALSE]
TLong   == [name |-> "long",           integral |-> TRUE,  size |-> 8, signed |-> TRUE]
TULong  == [name |-> "unsigned long",  integral |-> TRUE,  size |-> 8, signed |-> FALSE]
TInt128 == [name |-> "__int128",       integral |-> TRUE,  size |-> 16, signed |-> TRUE]
TFloat  == [name |-> "float",          integral |-> FALSE, size |-> 4, signed |-> TRUE]

Types == {TSChar, TUChar, TShort, TUShort, TInt, TUInt, TLong, TULong, TFloat}

\* The largest value of an unsigned type of one or two bytes.
UMax(T) == IF T.size = 1 THEN 255 ELSE 65535

\* The values of T the model offers and stores: small magnitudes around
\* zero, and for an unsigned type of one or two bytes also the values with
\* the top bit set.
Values(T) ==
    IF T.signed THEN (0 - MaxVal)..MaxVal
    ELSE IF T.size <= 2 THEN (0..MaxVal) \cup {UMax(T) - k : k \in 0..(MaxVal - 1)}
    ELSE 0..MaxVal

\* std::max(a, b): (a < b) ? b : a, under T's own order.
max(a, b) == IF a < b THEN b ELSE a

\* std::min(a, b): (b < a) ? b : a, under T's own order.
min(a, b) == IF b < a THEN b ELSE a

\* ---------------------------------------- object representation of T
\* Little-endian bytes of a non-negative number, n bytes wide.
RECURSIVE Bytes(_, _)
Bytes(x, n) == IF n = 0 THEN <<>> ELSE <<x % 256>> \o Bytes(x \div 256, n - 1)

Complement(b) == [i \in DOMAIN b |-> 255 - b[i]]

\* Two's-complement representation of the value x in sizeof(T) bytes.
ToBytes(T, x) ==
    IF x >= 0 THEN Bytes(x, T.size) ELSE Complement(Bytes((0 - x) - 1, T.size))

RECURSIVE Unsigned(_, _)
Unsigned(b, n) == IF n = 0 THEN 0 ELSE b[1] + 256 * Unsigned(Tail(b), n - 1)

TopBit(b) == b[Len(b)] >= 128

\* The value of type T that the bytes b represent.
FromBytes(T, b) ==
    IF T.signed /\ TopBit(b)
    THEN 0 - (1 + Unsigned(Complement(b), Len(b)))
    ELSE Unsigned(b, Len(b))

\* a < b as unsigned numbers, most significant byte first.
RECURSIVE UnsignedLess(_, _, _)
UnsignedLess(a, b, n) ==
    IF n = 0 THEN FALSE
    ELSE IF a[n] # b[n] THEN a[n] < b[n]
    ELSE UnsignedLess(a, b, n - 1)

\* a < b as two's-complement signed numbers.
SignedLess(a, b) ==
    IF TopBit(a) # TopBit(b) THEN TopBit(a) ELSE UnsignedLess(a, b, Len(a))

\* ------------------------------------------- AArch64 LSE instructions
\* Mutant of DEF2: the signed form whatever T is.
DEF2Signed(T) == "s"

\* DEF2: is_signed<T> selects the signed ("s") or unsigned ("u") form.
DEF2(T) == IF T.signed THEN "s" ELSE "u"

\* Mutant of DEF1: the two-byte case takes the "b" suffix of the one-byte
\* case.
DEF1ByteForHalf(T) ==
    IF T.size = 8 THEN 8
    ELSE IF T.size = 4 THEN 4
    ELSE IF T.size = 2 THEN 1
    ELSE IF T.size = 1 THEN 1
    ELSE 0

\* DEF1: sizeof(T) selects the operand width in bytes (8: x registers,
\* 4: w registers, 2: "h" suffix, 1: "b" suffix); 0 is assert(false).
DEF1(T) ==
    IF T.size = 8 THEN 8
    ELSE IF T.size = 4 THEN 4
    ELSE IF T.size = 2 THEN 2
    ELSE IF T.size = 1 THEN 1
    ELSE 0

\* Mutant of DEF0: the acquire test forgets consume, which falls to the
\* assert.
DEF0NoConsume(m) ==
    IF m = "relaxed" THEN "plain"
    ELSE IF m = "release" THEN "l"
    ELSE IF m = "acquire" THEN "a"
    ELSE IF m \in {"acq_rel", "seq_cst"} THEN "al"
    ELSE "assert"

\* DEF0: the ordering selects the fence form of the mnemonic.
DEF0(m) ==
    IF m = "relaxed" THEN "plain"
    ELSE IF m = "release" THEN "l"
    ELSE IF m \in {"acquire", "consume"} THEN "a"
    ELSE IF m \in {"acq_rel", "seq_cst"} THEN "al"
    ELSE "assert"

\* atomic_fetch_max<hardware>: its own chain over the ordering, ending in
\* __builtin_unreachable().
HardwareForm(m) ==
    IF m = "relaxed" THEN "plain"
    ELSE IF m = "release" THEN "l"
    ELSE IF m \in {"acquire", "consume"} THEN "a"
    ELSE IF m \in {"acq_rel", "seq_cst"} THEN "al"
    ELSE "unreachable"

\* Mutant of LdMax: the comparison is dropped and the register operand is
\* stored, as a swap does.
LdMaxSwaps(sign, width, mem, reg) ==
    [loaded |-> SubSeq(mem, 1, width),
     stored |-> SubSeq(reg, 1, width) \o SubSeq(mem, width + 1, Len(mem))]

\* ld<sign>max over `width` bytes: the memory operand mem and the register
\* operand reg are compared as signed or unsigned numbers of that width;
\* the instruction stores the larger and loads the old memory operand.
LdMax(sign, width, mem, reg) ==
    LET a == SubSeq(mem, 1, width)
        b == SubSeq(reg, 1, width)
        less == IF sign = "s" THEN SignedLess(a, b) ELSE UnsignedLess(a, b, width)
    IN  [loaded |-> a,
         stored |-> (IF less THEN b ELSE a) \o SubSeq(mem, width + 1, Len(mem))]

\* Mutant of LdMin: the comparison is dropped and the register operand is
\* stored, as a swap does.
LdMinSwaps(sign, width, mem, reg) ==
    [loaded |-> SubSeq(mem, 1, width),
     stored |-> SubSeq(reg, 1, width) \o SubSeq(mem, width + 1, Len(mem))]

\* ld<sign>min: as ld<sign>max, storing the smaller.
LdMin(sign, width, mem, reg) ==
    LET a == SubSeq(mem, 1, width)
        b == SubSeq(reg, 1, width)
        less == IF sign = "s" THEN SignedLess(a, b) ELSE UnsignedLess(a, b, width)
    IN  [loaded |-> a,
         stored |-> (IF less THEN a ELSE b) \o SubSeq(mem, width + 1, Len(mem))]

\* The register that holds the candidate: the bytes of v and, for a type
\* narrower than the register, a byte above them that the caller leaves
\* unspecified.
UpperBits == {0, 255}
Register(ty, x, junk) ==
    ToBytes(ty, x) \o (IF ty.size \in {1, 2, 4} THEN <<junk>> ELSE <<>>)

\* ------------------------------------------------------------- state
Entries == {"strong", "weak", "smart", "hardware", "explicit"}

\* atomic_fetch_min_explicit, and the two entry points of
\* atomic_maxmin_arm.hpp together.
MinEntries == {"explicit_min"}
Explicit == {"explicit", "explicit_min"}

VARIABLES
    arch,      \* the build's target: "ARM_ARCH_8A" or "other"
    T,         \* the operand type of the std::atomic<T> location
    loc,       \* *pv, the value the location holds
    call,      \* per thread: the call in progress (see Idle)
    hist,      \* the values the location has held, oldest first
    offered,   \* the initial value and every candidate offered so far
    entered,   \* the entry points called so far
    ncalls     \* calls started

vars == <<arch, T, loc, call, hist, offered, entered, ncalls>>

\* A thread outside any call.  entry: the function called; v, m: its
\* arguments; t: the local t (fetch_max.hpp) or x (atomic_maxmin_arm.hpp);
\* ret: the value a return at this point gives (t); pre: the location's value when the call began;
\* start, stop: the indices in hist of the location's value when the call
\* began and at its last atomic operation; loadOrd: the ordering given to the initial
\* load; writes: the write-class operations the call performed.
Idle ==
    [pc |-> "idle", entry |-> "none", v |-> 0, m |-> "relaxed", t |-> 0,
     ret |-> 0, pre |-> 0, start |-> 1, stop |-> 1, loadOrd |-> "none",
     writes |-> <<>>]

Arches == {"ARM_ARCH_8A", "other"}

\* What a build accepts: the hardware strategy takes std::atomic<int> only;
\* the ldsmax/ldumax mnemonics of the integral path assemble on AArch64 only.
Callable(e, a, ty) ==
    IF e = "hardware" THEN ty = TInt
    ELSE IF e \in Explicit THEN (ty.integral => a = "ARM_ARCH_8A")
    ELSE TRUE

\* The builds of the single-threaded runs: every type on every target.
Builds == Arches \X Types

\* The builds of the concurrent runs: int, which every entry point
\* accepts, on both targets, and float, which takes the compare-and-swap
\* path of atomic_fetch_max_explicit.
ConcBuilds == {<<"ARM_ARCH_8A", TInt>>, <<"other", TInt>>, <<"ARM_ARCH_8A", TFloat>>}

InitWith(builds) ==
    /\ \E b \in builds : arch = b[1] /\ T = b[2]
    /\ loc \in Values(T)
    /\ call = [self \in Threads |-> Idle]
    /\ hist = <<loc>>
    /\ offered = {loc}
    /\ entered = {}
    /\ ncalls = 0

Init == InitWith(ConcBuilds)

\* assert failure (std::abort) ends the process: no thread runs on.
Running == \A u \in Threads : call[u].pc # "aborted"

\* assert(sizeof(T) == 8 || sizeof(T) == 4 || sizeof(T) == 2 || sizeof(T) == 1)
SizeAsserted(ty) == ty.size = 8 \/ ty.size = 4 \/ ty.size = 2 \/ ty.size = 1

\* The position a call starts at.
FirstPc(e, a, ty) ==
    IF e = "hardware" THEN (IF a = "ARM_ARCH_8A" THEN "insn" ELSE "unreachable")
    ELSE IF e \in Explicit /\ ty.integral
         THEN (IF SizeAsserted(ty) THEN "insn" ELSE "assert")
    ELSE "load"

\* Threads keep nothing from one call to the next, so they are
\* interchangeable between calls: a new call is taken by the lowest-numbered
\* thread that is not in a call.
CallOf(self, entries) ==
    /\ Running
    /\ call[self].pc = "idle"
    /\ \A u \in Threads : u < self => call[u].pc # "idle"
    /\ ncalls < MaxCalls
    /\ \E e \in entries, c \in Values(T), o \in MemoryOrder :
          /\ Callable(e, arch, T)
          /\ call' = [call EXCEPT ![self] =
                 [Idle EXCEPT !.pc = FirstPc(e, arch, T), !.entry = e, !.v = c,
                              !.m = o, !.pre = loc, !.start = Len(hist)]]
          /\ offered' = offered \cup {c}
          /\ entered' = entered \cup {e}
    /\ ncalls' = ncalls + 1
    /\ UNCHANGED <<arch, T, loc, hist>>

\* A fetch-max call, a fetch-min call, a call of either.
Call(self) == CallOf(self, Entries)
CallMin(self) == CallOf(self, MinEntries)
CallAny(self) == CallOf(self, Entries \cup MinEntries)

\* The ordering argument of the initial load: fetch_max.hpp passes m as it
\* is, atomic_maxmin_arm.hpp passes load_order(m).
LoadArg(e, o) == IF e \in Explicit THEN load_order(o) ELSE o

\* Mutant of ReleaseClass: the test forgets acq_rel.
ReleaseClassNoAcqRel(o) == o = "release" \/ o = "seq_cst"

\* smart: the orderings that get the dummy write.
ReleaseClass(o) == o = "release" \/ o = "acq_rel" \/ o = "seq_cst"

\* Mutant of Desired: the strong loops store the candidate itself.
DesiredCandidate(e, c, cur) == c

\* The desired value of the compare-and-swap: max(v, t) in the loops that
\* always write, v in the loops that write only an improving candidate.
\* atomic_fetch_min_explicit: min(v, x).
Desired(e, c, cur) ==
    IF e \in {"strong", "explicit"} THEN max(c, cur)
    ELSE IF e = "explicit_min" THEN min(c, cur)
    ELSE c

\* Mutant of AfterRead: strong skips the compare-and-swap, as weak does,
\* when the candidate does not improve.
AfterReadStrongSkips(e, c, cur, o) ==
    IF e \in {"explicit", "explicit_min"} THEN "cas"
    ELSE IF max(c, cur) # cur THEN "cas"
    ELSE IF e = "smart" /\ ReleaseClass(o) THEN "fence"
    ELSE "done"

\* Mutant of AfterRead: weak and smart loop while (v != t).
AfterReadNotEqual(e, c, cur, o) ==
    IF e \in {"strong", "explicit", "explicit_min"} THEN "cas"
    ELSE IF c # cur THEN "cas"
    ELSE IF e = "smart" /\ ReleaseClass(o) THEN "fence"
    ELSE "done"

\* Where a loop goes once t holds cur (after the load or a failed
\* compare-and-swap): strong and the loops of atomic_maxmin_arm.hpp always
\* try the compare-and-swap; weak and smart only while max(v, t) != t, then
\* weak returns and smart reaches its dummy write or returns.
AfterRead(e, c, cur, o) ==
    IF e \in {"strong", "explicit", "explicit_min"} THEN "cas"
    ELSE IF max(c, cur) # cur THEN "cas"
    ELSE IF e = "smart" /\ ReleaseClass(o) THEN "fence"
    ELSE "done"

\* The record of one write-class operation.
Write(op, o, form, old, new) ==
    [op |-> op, order |-> o, form |-> form, old |-> old, new |-> new]

\* The location takes the value new.
Store(new) ==
    /\ loc' = new
    /\ hist' = IF new = loc THEN hist ELSE Append(hist, new)

\* t = pv->load(...)
Load(self) ==
    LET c == call[self] IN
    /\ Running
    /\ c.pc = "load"
    /\ call' = [call EXCEPT ![self] =
           [c EXCEPT !.t = loc, !.ret = loc, !.stop = Len(hist),
                     !.loadOrd = LoadArg(c.entry, c.m),
                     !.pc = AfterRead(c.entry, c.v, loc, c.m)]]
    /\ UNCHANGED <<arch, T, loc, hist, offered, entered, ncalls>>

\* Mutant of CasSucceed: a plain store of the desired value, whatever *pv
\* holds.
CasSucceedBlind(self) ==
    LET c == call[self]
        d == Desired(c.entry, c.v, c.t) IN
    /\ Running
    /\ c.pc = "cas"
    /\ Store(d)
    /\ call' = [call EXCEPT ![self] =
           [c EXCEPT !.pc = "done", !.ret = c.t, !.stop = Len(hist'),
                     !.writes = Append(c.writes, Write("cas", c.m, "none", loc, d))]]
    /\ UNCHANGED <<arch, T, offered, entered, ncalls>>

\* compare_exchange_weak finds *pv equal to t and stores the desired value;
\* every loop then returns t.
CasSucceed(self) ==
    LET c == call[self]
        d == Desired(c.entry, c.v, c.t) IN
    /\ Running
    /\ c.pc = "cas"
    /\ loc = c.t
    /\ Store(d)
    /\ call' = [call EXCEPT ![self] =
           [c EXCEPT !.pc = "done", !.ret = c.t, !.stop = Len(hist'),
                     !.writes = Append(c.writes, Write("cas", c.m, "none", loc, d))]]
    /\ UNCHANGED <<arch, T, offered, entered, ncalls>>

\* Mutant of CasFail: no retry; a failed compare-and-swap ends the call,
\* which returns the value it had read.
CasFailGivesUp(self) ==
    LET c == call[self] IN
    /\ Running
    /\ c.pc = "cas"
    /\ call' = [call EXCEPT ![self] = [c EXCEPT !.pc = "done", !.ret = c.t]]
    /\ UNCHANGED <<arch, T, loc, hist, offered, entered, ncalls>>

\* compare_exchange_weak fails, because *pv differs from t or spuriously
\* (it may at any attempt): it writes nothing and refreshes t with the
\* value of *pv.  A spurious failure finds *pv equal to t and leaves the
\* call where it was.
CasFail(self) ==
    LET c == call[self] IN
    /\ Running
    /\ c.pc = "cas"
    /\ call' = [call EXCEPT ![self] =
           [c EXCEPT !.t = loc, !.ret = loc, !.stop = Len(hist),
                     !.pc = AfterRead(c.entry, c.v, loc, c.m)]]
    /\ UNCHANGED <<arch, T, loc, hist, offered, entered, ncalls>>

\* Mutant of FetchAdd: the dummy write is a store of t, the value the call
\* last read.
FetchAddStoresT(self) ==
    LET c == call[self] IN
    /\ Running
    /\ c.pc = "fence"
    /\ Store(c.t)
    /\ call' = [call EXCEPT ![self] =
           [c EXCEPT !.pc = "done", !.ret = c.t, !.stop = Len(hist'),
                     !.writes = Append(c.writes,
                                  Write("fetch_add", c.m, "none", loc, c.t))]]
    /\ UNCHANGED <<arch, T, offered, entered, ncalls>>

\* smart: pv->fetch_add(0, m)
FetchAdd(self) ==
    LET c == call[self] IN
    /\ Running
    /\ c.pc = "fence"
    /\ Store(loc + 0)
    /\ call' = [call EXCEPT ![self] =
           [c EXCEPT !.pc = "done", !.ret = c.t, !.stop = Len(hist'),
                     !.writes = Append(c.writes,
                                  Write("fetch_add", c.m, "none", loc, loc + 0))]]
    /\ UNCHANGED <<arch, T, offered, entered, ncalls>>

\* The sign and the operand width of the instruction a call executes:
\* atomic_fetch_max<hardware> is "ldsmax" on w registers whatever T is,
\* atomic_fetch_max_explicit goes through DEF2 and DEF1.
InsnSign(e, ty) == IF e = "hardware" THEN "s" ELSE DEF2(ty)
InsnWidth(e, ty) == IF e = "hardware" THEN 4 ELSE DEF1(ty)

\* The fence form of the instruction a call executes.
InsnForm(e, o) == IF e = "hardware" THEN HardwareForm(o) ELSE DEF0(o)

\* DEF2("ld", "max") or DEF2("ld", "min").
InsnResult(e, sign, width, mem, reg) ==
    IF e = "explicit_min" THEN LdMin(sign, width, mem, reg)
    ELSE LdMax(sign, width, mem, reg)

\* One ld[su]max or ld[su]min instruction: the whole read-modify-write.
Insn(self) ==
    LET c == call[self] IN
    /\ Running
    /\ c.pc = "insn"
    /\ \E junk \in UpperBits :
          LET r == InsnResult(c.entry, InsnSign(c.entry, T), InsnWidth(c.entry, T),
                              ToBytes(T, loc), Register(T, c.v, junk))
              x == FromBytes(T, r.loaded)
              new == FromBytes(T, r.stored) IN
          /\ Store(new)
          /\ call' = [call EXCEPT ![self] =
                 [c EXCEPT !.pc = "done", !.t = x, !.ret = x, !.stop = Len(hist'),
                           !.writes = Append(c.writes,
                                        Write("insn", c.m, InsnForm(c.entry, c.m),
                                              loc, new))]]
    /\ UNCHANGED <<arch, T, offered, entered, ncalls>>

\* atomic_fetch_max_explicit and atomic_fetch_min_explicit on an integral T
\* whose size is none of 8, 4, 2, 1: the assert ends the process; built with
\* NDEBUG the assert is gone, no branch of DEF1 is taken, and the call
\* returns x uninitialized.
AssertSize(self) ==
    LET c == call[self] IN
    /\ Running
    /\ c.pc = "assert"
    /\ \/ call' = [call EXCEPT ![self] = [c EXCEPT !.pc = "aborted"]]
       \/ \E garbage \in Values(T) :
             call' = [call EXCEPT ![self] =
                        [c EXCEPT !.pc = "done", !.ret = garbage, !.stop = Len(hist)]]
    /\ UNCHANGED <<arch, T, loc, hist, offered, entered, ncalls>>

\* atomic_fetch_max<hardware> built without __ARM_ARCH_8A: the body is
\* __builtin_unreachable(), so executing it is undefined: the call falls
\* through with whatever value the return register holds, or traps.
Unreachable(self) ==
    LET c == call[self] IN
    /\ Running
    /\ c.pc = "unreachable"
    /\ \/ \E garbage \in Values(T) :
             call' = [call EXCEPT ![self] =
                        [c EXCEPT !.pc = "done", !.ret = garbage, !.stop = Len(hist)]]
       \/ call' = [call EXCEPT ![self] = [c EXCEPT !.pc = "aborted"]]
    /\ UNCHANGED <<arch, T, loc, hist, offered, entered, ncalls>>

\* An ordering argument outside the precondition of load or of the failure
\* case of compare_exchange_weak is undefined: a build with the library's
\* assertions aborts there, another performs the operation (Load, CasSucceed
\* and CasFail above).
PreconditionAbort(self) ==
    LET c == call[self] IN
    /\ Running
    /\ \/ c.pc = "load" /\ ~LoadPrecondition(LoadArg(c.entry, c.m))
       \/ c.pc = "cas" /\ ~LoadPrecondition(c.m)
    /\ call' = [call EXCEPT ![self] = [c EXCEPT !.pc = "aborted"]]
    /\ UNCHANGED <<arch, T, loc, hist, offered, entered, ncalls>>

\* The caller takes the result; the thread may call again.
Return(self) ==
    /\ Running
    /\ call[self].pc = "done"
    /\ call' = [call EXCEPT ![self] = Idle]
    /\ UNCHANGED <<arch, T, loc, hist, offered, entered, ncalls>>

Step(self) ==
    \/ Call(self)
    \/ Load(self)
    \/ CasSucceed(self)
    \/ CasFail(self)
    \/ FetchAdd(self)
    \/ Insn(self)
    \/ Unreachable(self)
    \/ PreconditionAbort(self)
    \/ Return(self)

Next == \E self \in Threads : Step(self)

Spec == Init /\ [][Next]_vars

\* Single-threaded runs, over every operand type: a call starts only when
\* no other call is in progress and the previous result has been taken.
InitSeq == InitWith(Builds)

Alone(self) == \A u \in Threads : u # self => call[u].pc = "idle"

NextSeq ==
    \E self \in Threads :
        \/ Alone(self) /\ CallAny(self)
        \/ Alone(self) /\ Load(self)
        \/ Alone(self) /\ CasSucceed(self)
        \/ Alone(self) /\ CasFail(self)
        \/ Alone(self) /\ FetchAdd(self)
        \/ Alone(self) /\ Insn(self)
        \/ Alone(self) /\ Unreachable(self)
        \/ Alone(self) /\ PreconditionAbort(self)
        \/ Alone(self) /\ Return(self)

SpecSeq == InitSeq /\ [][NextSeq]_vars

\* Concurrent runs of atomic_fetch_min_explicit alone, on AArch64: the
\* instruction path over a signed and an unsigned type, and float, which
\* takes the compare-and-swap path.
MinBuilds == {<<"ARM_ARCH_8A", TInt>>, <<"ARM_ARCH_8A", TUChar>>, <<"ARM_ARCH_8A", TFloat>>}

InitMin == InitWith(MinBuilds)

NextMin ==
    \E self \in Threads :
        \/ CallMin(self)
        \/ Load(self)
        \/ CasSucceed(self)
        \/ CasFail(self)
        \/ Insn(self)
        \/ PreconditionAbort(self)
        \/ Return(self)

SpecMin == InitMin /\ [][NextMin]_vars

\* Single-threaded runs over __int128, an integral type of sixteen bytes,
\* on AArch64.
AssertBuilds == {<<"ARM_ARCH_8A", TInt128>>}

InitAssert == InitWith(AssertBuilds)

NextAssert ==
    \E self \in Threads :
        \/ Alone(self) /\ CallAny(self)
        \/ Alone(self) /\ Load(self)
        \/ Alone(self) /\ CasSucceed(self)
        \/ Alone(self) /\ CasFail(self)
        \/ Alone(self) /\ FetchAdd(self)
        \/ Alone(self) /\ AssertSize(self)
        \/ Alone(self) /\ PreconditionAbort(self)
        \/ Alone(self) /\ Return(self)

SpecAssert == InitAssert /\ [][NextAssert]_vars

\* ------------------------------------------------------------ claims
Done(self) == call[self].pc = "done"

\* The largest element of a non-empty set of values.
SetMax(S) == CHOOSE x \in S : \A y \in S : y <= x

\* No call is in progress: every call started so far has returned.
Quiescent == \A self \in Threads : call[self].pc \in {"idle", "done"}

\* The values the location held between the start of the call and its
\* last atomic operation.
Held(self) == {hist[i] : i \in call[self].start..call[self].stop}

\* C1: a call of the strong, weak or smart strategy or of
\* atomic_fetch_max_explicit that runs alone returns the value the location
\* held immediately before the call and leaves the location at max(r, v).
C1_SingleThreadedResult ==
    \A self \in Threads :
        (Done(self) /\ call[self].entry \in {"strong", "weak", "smart", "explicit"})
            => /\ call[self].ret = call[self].pre
               /\ loc = max(call[self].ret, call[self].v)

\* The second call of a run returned while the location held more than its
\* candidate, after the first call had raised the location.
C1_Witness ==
    \E self \in Threads :
        /\ Done(self)
        /\ call[self].entry \in {"strong", "weak", "smart", "explicit"}
        /\ ncalls = 2
        /\ Len(hist) = 2
        /\ call[self].v < call[self].ret
        /\ loc = call[self].ret

\* C2: whatever the interleaving of strong, weak and smart calls and the
\* failures of compare_exchange_weak, once every call has returned the
\* location holds the maximum of the initial value and all candidates.
C2_Convergence ==
    (Quiescent /\ entered \subseteq {"strong", "weak", "smart"})
        => loc = SetMax(offered)

\* Two overlapping calls returned: one of them read a value that another
\* call had written after it began.
C2_Witness ==
    /\ Quiescent
    /\ entered = {"strong", "weak"}
    /\ \A self \in Threads : Done(self)
    /\ \E self \in Threads : call[self].ret # call[self].pre
    /\ loc = SetMax(offered)

\* C3: a returned call of the strong strategy or of
\* atomic_fetch_max_explicit made one write; the location held the returned
\* value r immediately before that write and max(r, v) immediately after.
C3_AtomicUpdate ==
    \A self \in Threads :
        (Done(self) /\ call[self].entry \in {"strong", "explicit"})
            => /\ Len(call[self].writes) = 1
               /\ call[self].writes[1].old = call[self].ret
               /\ call[self].writes[1].new = max(call[self].ret, call[self].v)

\* A strong or explicit call wrote its candidate over a value that another
\* caller had installed after the call began.
C3_Witness ==
    \E self \in Threads :
        /\ Done(self)
        /\ call[self].entry \in {"strong", "explicit"}
        /\ call[self].pre < call[self].ret
        /\ call[self].ret < call[self].v
        /\ call[self].writes[1].new = call[self].v

\* A returned weak or smart call left its loop because the candidate did not
\* improve on the value it observed: none of its compare-and-swaps succeeded.
NoImprovementExit(self) ==
    /\ Done(self)
    /\ call[self].entry \in {"weak", "smart"}
    /\ \A i \in DOMAIN call[self].writes : call[self].writes[i].op # "cas"

\* C4: the value a call of any strategy returns is a value the location
\* held between the call's start and its return; a weak or smart call that
\* leaves through the no-improvement branch returns a value >= v.
C4_ReturnedValueHeld ==
    \A self \in Threads :
        /\ Done(self) => call[self].ret \in Held(self)
        /\ NoImprovementExit(self) => call[self].ret >= call[self].v

\* The call ran the body the build gives atomic_fetch_max<hardware> without
\* __ARM_ARCH_8A.
UnreachableBody(self) == call[self].entry = "hardware" /\ arch # "ARM_ARCH_8A"

\* C4 holds of every call that did not run that body.
C4_Elsewhere ==
    \A self \in Threads :
        /\ (Done(self) /\ ~UnreachableBody(self)) => call[self].ret \in Held(self)
        /\ NoImprovementExit(self) => call[self].ret >= call[self].v

\* C5: every returned call of the strong strategy made exactly one
\* successful compare-and-swap, with success ordering m; when v does not
\* exceed the value found, it stored that value back.
C5_StrongAlwaysWrites ==
    \A self \in Threads :
        (Done(self) /\ call[self].entry = "strong")
            => /\ Len(call[self].writes) = 1
               /\ call[self].writes[1].op = "cas"
               /\ call[self].writes[1].order = call[self].m
               /\ call[self].v <= call[self].writes[1].old
                    => call[self].writes[1].new = call[self].writes[1].old

\* A strong call with a release ordering stored back a value that another
\* caller had installed after the call began.
C5_Witness ==
    \E self \in Threads :
        /\ Done(self)
        /\ call[self].entry = "strong"
        /\ call[self].m = "release"
        /\ call[self].pre < call[self].v
        /\ call[self].v < call[self].ret
        /\ call[self].writes[1].new = call[self].writes[1].old

\* A returned call made no write-class operation although its ordering is
\* release, acq_rel or seq_cst.
FenceElided(self) ==
    /\ Done(self)
    /\ call[self].m \in {"release", "acq_rel", "seq_cst"}
    /\ call[self].writes = <<>>

\* C6: the weak strategy has a compare-and-swap pending only while the
\* candidate exceeds the value observed; a weak call that ends on a value
\* >= v has written nothing; and weak is the only strategy whose call can
\* return under release, acq_rel or seq_cst without a write-class operation.
C6_WeakNoOp ==
    \A self \in Threads :
        /\ (call[self].entry = "weak" /\ call[self].pc = "cas")
              => call[self].v > call[self].t
        /\ (call[self].entry = "weak" /\ Done(self) /\ call[self].v <= call[self].ret)
              => call[self].writes = <<>>
        /\ FenceElided(self) => call[self].entry = "weak"

\* C6 holds of every call that did not run the unreachable body.
C6_Elsewhere ==
    \A self \in Threads :
        /\ (call[self].entry = "weak" /\ call[self].pc = "cas")
              => call[self].v > call[self].t
        /\ (call[self].entry = "weak" /\ Done(self) /\ call[self].v <= call[self].ret)
              => call[self].writes = <<>>
        /\ (FenceElided(self) /\ ~UnreachableBody(self)) => call[self].entry = "weak"

\* A weak call with acq_rel returned without any write, after a failed
\* compare-and-swap showed it a value >= v.
C6_WeakElides ==
    \E self \in Threads :
        /\ FenceElided(self)
        /\ call[self].entry = "weak"
        /\ call[self].m = "acq_rel"
        /\ call[self].pre < call[self].v

\* C7: a returned smart call with release, acq_rel or seq_cst made exactly
\* one write-class operation, with ordering m: the compare-and-swap that
\* installed v, or one fetch_add(0) when the candidate did not improve; with
\* another ordering and a candidate that did not improve it wrote nothing.
C7_SmartFenceRepair ==
    \A self \in Threads :
        (Done(self) /\ call[self].entry = "smart")
            => LET c == call[self] IN
               /\ c.m \in {"release", "acq_rel", "seq_cst"}
                    => /\ Len(c.writes) = 1
                       /\ c.writes[1].order = c.m
                       /\ \/ /\ c.writes[1].op = "cas"
                             /\ c.writes[1].new = c.v
                             /\ c.ret < c.v
                          \/ /\ c.writes[1].op = "fetch_add"
                             /\ c.writes[1].new = c.writes[1].old
                             /\ c.ret >= c.v
               /\ (c.m \in {"relaxed", "acquire", "consume"} /\ c.ret >= c.v)
                    => c.writes = <<>>

\* A smart call with acq_rel made the dummy write after a failed
\* compare-and-swap showed it a value >= v.
C7_Witness ==
    \E self \in Threads :
        /\ Done(self)
        /\ call[self].entry = "smart"
        /\ call[self].m = "acq_rel"
        /\ call[self].pre < call[self].v
        /\ Len(call[self].writes) = 1
        /\ call[self].writes[1].op = "fetch_add"

\* The downgrade of section 4.1, as a table over the six orderings.
Downgraded ==
    [o \in MemoryOrder |->
        CASE o = "relaxed" -> "relaxed"
          [] o = "consume" -> "consume"
          [] o = "acquire" -> "acquire"
          [] o = "release" -> "relaxed"
          [] o = "acq_rel" -> "acquire"
          [] o = "seq_cst" -> "seq_cst"]

\* C8: the ordering load_order computes for the load of
\* atomic_fetch_max_explicit is relaxed for release, acquire for acq_rel
\* and m itself for the four others; it is never release or acq_rel.
C8_LoadOrder ==
    \A self \in Threads :
        (call[self].entry = "explicit" /\ call[self].loadOrd # "none")
            => /\ call[self].loadOrd = Downgraded[call[self].m]
               /\ call[self].loadOrd \notin {"release", "acq_rel"}

\* The load of an explicit call with acq_rel was issued with acquire.
C8_Witness ==
    \E self \in Threads :
        /\ call[self].entry = "explicit"
        /\ call[self].m = "acq_rel"
        /\ call[self].loadOrd = "acquire"

\* The strong strategy run alone on a location holding cur: the load reads
\* cur and the first compare-and-swap that succeeds stores max(v, cur).
StrongAlone(cur, c) == [ret |-> cur, final |-> Desired("strong", c, cur)]

\* C9: on the hardware path (integral T), a call of
\* atomic_fetch_max_explicit that runs alone returns the value and leaves
\* the value that the strong strategy returns and leaves from the same
\* initial value, candidate and ordering.
C9_HardwareGenericEquivalence ==
    \A self \in Threads :
        (Done(self) /\ call[self].entry = "explicit" /\ T.integral)
            => /\ call[self].ret = StrongAlone(call[self].pre, call[self].v).ret
               /\ loc = StrongAlone(call[self].pre, call[self].v).final

\* ldumax kept a value with the top bit set against a smaller candidate.
C9_Witness ==
    \E self \in Threads :
        /\ Done(self)
        /\ call[self].entry = "explicit"
        /\ T.integral /\ ~T.signed
        /\ call[self].pre >= 128
        /\ call[self].v < call[self].pre
        /\ call[self].ret = call[self].pre
        /\ loc = call[self].pre

\* C10: in a build without the atomic max instruction no call of
\* atomic_fetch_max<hardware> executes and returns.
C10_HardwareExcluded ==
    \A self \in Threads : ~(UnreachableBody(self) /\ Done(self))

\* A call of an entry point of atomic_maxmin_arm.hpp with an integral T
\* whose size is none of 1, 2, 4, 8.
OutsideWidths(self) ==
    /\ call[self].entry \in {"explicit", "explicit_min"}
    /\ T.integral
    /\ T.size \notin {1, 2, 4, 8}

\* C11: a call of the architecture-aware entry point with an integral T
\* whose width is not 1, 2, 4 or 8 bytes never returns a value and never
\* reads or writes the location: it ends the process.
C11_ContractViolationFatal ==
    \A self \in Threads :
        OutsideWidths(self)
            => /\ ~Done(self)
               /\ call[self].loadOrd = "none"
               /\ call[self].writes = <<>>
               /\ loc = call[self].pre

\* What holds of C11 in every build: such a call performs no load and no
\* write, and it either ends the process or returns without having touched
\* the location.
C11_Elsewhere ==
    \A self \in Threads :
        OutsideWidths(self)
            => /\ call[self].pc \in {"assert", "aborted", "done"}
               /\ call[self].loadOrd = "none"
               /\ call[self].writes = <<>>
               /\ loc = call[self].pre

\* The smallest element of a non-empty set of values.
SetMin(S) == CHOOSE x \in S : \A y \in S : x <= y

\* C12: under any interleaving of atomic_fetch_min_explicit calls, a
\* returned call made exactly one write, which found the value c the call
\* returns and replaced it by min(c, v); once every call has returned the
\* location holds the minimum of the initial value and all candidates.
C12_FetchMinSymmetric ==
    /\ \A self \in Threads :
           (Done(self) /\ call[self].entry = "explicit_min")
               => /\ Len(call[self].writes) = 1
                  /\ call[self].writes[1].old = call[self].ret
                  /\ call[self].writes[1].new =
                        (IF call[self].v < call[self].ret THEN call[self].v
                         ELSE call[self].ret)
    /\ Quiescent => loc = SetMin(offered)

\* Two overlapping fetch-min calls have both returned, each having lowered
\* the location, the second after a compare-and-swap path or an
\* instruction that found the value the first had installed.
C12_Witness ==
    /\ \A self \in Threads : Done(self) /\ call[self].entry = "explicit_min"
    /\ \E self \in Threads : call[self].start = 1 /\ call[self].ret # hist[1]
    /\ Len(hist) = 3
    /\ loc = SetMin(offered)

\* A call is in progress: started and not yet returned.
Started(self) == call[self].pc \notin {"idle", "done"}

\* The next operation of the call in progress on thread self.
OwnStep(self) ==
    \/ Load(self)
    \/ CasSucceed(self)
    \/ CasFail(self)
    \/ FetchAdd(self)
    \/ Insn(self)

\* C13: while only the strong, weak and smart strategies and
\* atomic_fetch_max_explicit are called, a started call that has not yet
\* returned can always perform its next operation, whatever the other
\* threads are doing: no call is left unable to return.
C13_CallsRunToCompletion ==
    \A self \in Threads :
        (Started(self) /\ entered \subseteq {"strong", "weak", "smart", "explicit"})
            => ENABLED OwnStep(self)

\* Fair scheduling of the threads, and a compare_exchange_weak that does
\* not fail forever while the location holds the expected value.
Fairness == \A self \in Threads : WF_vars(OwnStep(self))

\* The builds whose calls all take a retry loop: int on a target without
\* the instruction, float on AArch64.
FairBuilds == {<<"other", TInt>>, <<"ARM_ARCH_8A", TFloat>>}

InitFair == InitWith(FairBuilds)

SpecFair == InitFair /\ [][Next]_vars /\ Fairness

\* What holds of C13 under fair scheduling: every started call of these
\* entry points returns unless the process is aborted.
C13_Elsewhere ==
    \A self \in Threads :
        (Started(self) /\ call[self].entry \in {"strong", "weak", "smart", "explicit"})
            ~> (Done(self) \/ ~Running)

\* C14: in a sequence of fetch-max calls made one after another, the
\* location's value after each call is >= its value before that call, for
\* every strategy and whatever the earlier candidates were, so in
\* particular when the candidates do not increase.
C14_NeverDecreases ==
    \A self \in Threads :
        (Done(self) /\ call[self].entry \in Entries) => loc >= call[self].pre

\* The first call raised the location to its candidate hist[2]; the second
\* call, with a candidate that is not larger, has returned and the location
\* still holds hist[2].
C14_Witness ==
    \E self \in Threads :
        /\ Done(self)
        /\ call[self].entry \in Entries
        /\ entered \subseteq Entries
        /\ ncalls = 2
        /\ Len(hist) = 2
        /\ call[self].pre = hist[2]
        /\ call[self].v <= hist[2]
        /\ loc = hist[2]

\* C15: the end-to-end example.  The location holds c0 (9 in the example)
\* and two calls of the strong, weak or smart strategy run concurrently,
\* b with a candidate above c0 (15) and a with a candidate above b's (20).
\* When both have returned the location holds a's candidate, and the two
\* return values are those of one of the two sequential orders: a first
\* (a returns c0, b returns a's candidate) or b first (b returns c0, a
\* returns b's candidate).
C15_ConcurrentExample ==
    \A a, b \in Threads :
        (/\ a # b
         /\ Done(a) /\ Done(b)
         /\ ncalls = 2
         /\ entered \subseteq {"strong", "weak", "smart"}
         /\ hist[1] < call[b].v
         /\ call[b].v < call[a].v)
            => /\ loc = call[a].v
               /\ <<call[a].ret, call[b].ret>> \in
                     {<<hist[1], call[a].v>>, <<call[b].v, hist[1]>>}

\* Both calls of the example have returned; a, which started while the
\* location still held c0, returned the candidate b had installed
\* meanwhile.
C15_Witness ==
    \E a, b \in Threads :
        /\ a # b
        /\ Done(a) /\ Done(b)
        /\ ncalls = 2
        /\ entered \subseteq {"strong", "weak", "smart"}
        /\ hist[1] < call[b].v
        /\ call[b].v < call[a].v
        /\ call[a].start = 1
        /\ call[a].ret = call[b].v
        /\ call[b].ret = hist[1]
        /\ loc = call[a].v

\* C16: in every compare-and-swap path (strong, weak, smart, and the
\* non-integral path of atomic_fetch_max_explicit and
\* atomic_fetch_min_explicit) the load before the retry loop is issued with
\* the downgraded ordering, so never with release or acq_rel.
C16_LoadDowngradedEverywhere ==
    \A self \in Threads :
        call[self].loadOrd # "none"
            => /\ call[self].loadOrd = Downgraded[call[self].m]
               /\ call[self].loadOrd \notin {"release", "acq_rel"}

\* What holds of C16: the loops of atomic_maxmin_arm.hpp downgrade, the
\* loops of fetch_max.hpp give the load the caller's ordering unchanged.
C16_Elsewhere ==
    \A self \in Threads :
        call[self].loadOrd # "none"
            => IF call[self].entry \in {"explicit", "explicit_min"}
               THEN call[self].loadOrd = Downgraded[call[self].m]
               ELSE call[self].loadOrd = call[self].m

\* The fence form each ordering requires: plain, release ("l"), acquire
\* ("a"), both ("al").
FenceForm ==
    [o \in MemoryOrder |->
        CASE o = "relaxed" -> "plain"
          [] o = "release" -> "l"
          [] o = "acquire" -> "a"
          [] o = "consume" -> "a"
          [] o = "acq_rel" -> "al"
          [] o = "seq_cst" -> "al"]

\* A call that takes the hardware path: an entry point of
\* atomic_maxmin_arm.hpp on an integral type of 1, 2, 4 or 8 bytes, or the
\* hardware strategy on AArch64.
HardwarePath(self) ==
    \/ /\ call[self].entry \in {"explicit", "explicit_min"}
       /\ T.integral
       /\ T.size \in {1, 2, 4, 8}
    \/ call[self].entry = "hardware" /\ arch = "ARM_ARCH_8A"

\* C17: for every ordering, width and signedness a call on the hardware
\* path stands before its instruction or has returned, never at an assert
\* or unreachable branch; a returned call executed exactly one instruction
\* and no other atomic operation, and the instruction has the fence form
\* its ordering requires.
C17_OrderingDispatch ==
    \A self \in Threads :
        HardwarePath(self)
            => /\ call[self].pc \in {"insn", "done"}
               /\ Done(self)
                     => /\ Len(call[self].writes) = 1
                        /\ call[self].writes[1].op = "insn"
                        /\ call[self].writes[1].form = FenceForm[call[self].m]
                        /\ call[self].loadOrd = "none"

\* atomic_fetch_min_explicit on unsigned long with consume has returned
\* after one acquire-form instruction.
C17_Witness ==
    \E self \in Threads :
        /\ Done(self)
        /\ call[self].entry = "explicit_min"
        /\ T = TULong
        /\ call[self].m = "consume"
        /\ Len(call[self].writes) = 1
        /\ call[self].writes[1].form = "a"

\* C18: on an integral T of 1, 2, 4 or 8 bytes the instruction of
\* atomic_fetch_max_explicit (atomic_fetch_min_explicit) leaves the larger
\* (smaller) of the value held and the candidate under T's own order,
\* signed or unsigned over the full width of T, and the call returns the
\* value of T that was held, whatever the register holds above the
\* operand.
C18_SignednessAndWidth ==
    \A self \in Threads :
        (/\ Done(self)
         /\ call[self].entry \in {"explicit", "explicit_min"}
         /\ T.integral
         /\ T.size \in {1, 2, 4, 8})
            => /\ call[self].ret = call[self].pre
               /\ call[self].ret \in Values(T)
               /\ loc \in {call[self].pre, call[self].v}
               /\ IF call[self].entry = "explicit"
                  THEN loc >= call[self].pre /\ loc >= call[self].v
                  ELSE loc <= call[self].pre /\ loc <= call[self].v

\* The example of the claim: on unsigned char, fetch-max of 1 into a
\* location holding 0xFF returned 0xFF and left 0xFF.
C18_Witness ==
    \E self \in Threads :
        /\ Done(self)
        /\ call[self].entry = "explicit"
        /\ T = TUChar
        /\ call[self].pre = 255
        /\ call[self].v = 1
        /\ call[self].ret = 255
        /\ loc = 255

\* C19: under any interleaving, the step that performs the self-store of a
\* strong loop (a compare-and-swap whose desired value max(v, t) is t), the
\* step that performs smart's fetch_add(0, m), and a step in which a
\* compare_exchange_weak fails, spuriously or not, each leave the location
\* holding what it held immediately before the step.
C19_RedundantWritesKeepValue ==
    [][\A self \in Threads :
          LET c == call[self]
              d == call'[self] IN
          /\ (c.pc = "fence" /\ d.pc = "done") => loc' = loc
          /\ (/\ c.pc = "cas"
              /\ c.entry \in {"strong", "explicit"}
              /\ c.v <= c.t
              /\ Len(d.writes) = Len(c.writes) + 1) => loc' = loc
          /\ (c.pc = "cas" /\ d # c /\ d.writes = c.writes) => loc' = loc]_vars

\* A smart call performed its fetch_add(0, m) on a location that another
\* caller had raised above the value the smart call last read, and the
\* location still holds the larger value.
C19_Witness ==
    \E self \in Threads :
        /\ Done(self)
        /\ call[self].entry = "smart"
        /\ Len(call[self].writes) = 1
        /\ call[self].writes[1].op = "fetch_add"
        /\ call[self].writes[1].old > call[self].ret
        /\ loc = call[self].writes[1].old

\* C20: while only fetch-max calls operate on the location, its value is
\* the initial value or a candidate offered so far, and once a call with
\* candidate v has returned, whatever its strategy, the location holds a
\* value >= v.
C20_StablePostcondition ==
    /\ loc \in offered
    /\ \A self \in Threads : Done(self) => loc >= call[self].v

\* What holds of C20: the location never decreases from one step to the
\* next, it always holds the initial value or a candidate offered so far,
\* and it is >= the candidate of every returned call that did not execute
\* the unreachable body of the hardware strategy.
C20_Elsewhere ==
    /\ [][loc' >= loc]_vars
    /\ [](loc \in offered)
    /\ [](\A self \in Threads :
             (Done(self) /\ ~UnreachableBody(self)) => loc >= call[self].v)
====
